---- MODULE Spec2Model ----
(***************************************************************************)
(* A model of the YAML sanitizer of Vibe-Coder (sanitizer.js) and of the   *)
(* way installer.js drives it.                                             *)
(*                                                                         *)
(* Text is a sequence of tokens.  A token is an indivisible chunk of text: *)
(* the newline, one blank, a key (a word followed by a colon) or the chunk *)
(* "[", which opens a flow sequence that is never closed.  Everything the  *)
(* code asks of a text (split at newlines, trim, leading whitespace,       *)
(* contains a colon, the regular expressions) is computed on the tokens.   *)
(*                                                                         *)
(* A path is a record [abs, segs, trail]: whether it starts with a slash,  *)
(* its segments, and whether it ends with a slash.                         *)
(***************************************************************************)
EXTENDS Naturals, Sequences, FiniteSets

VARIABLES
  root,           \* projectRoot: [path, kind], kind the file system's answer
  fs,             \* allow-listed file -> its content, or Absent
  bak,            \* the backup siblings: a set of [file, t, content]
  now,            \* the last value Date.now() returned
  pc,             \* where the running operation stands
  op,             \* the running operation: "none", "fix" or "validate"
  idx,            \* the position of the for loop in ALLOWED_SYSTEM_PROMPT_FILES
  content,        \* the local `content` of the loop body
  validCapabilitiesSection,  \* the local of that name, Null while unset
  allSuccessful,  \* the local allSuccessful of fixDuplicateCapabilities
  allValid,       \* the local allValid of validateFilesWithYaml
  checked,        \* history: the sections validateFilesWithYaml has handed to
                  \* validateYamlSection, file by file
  configsValid,   \* the local allValid of validateAllToolConfigurations
  fixesMade,      \* the local fixesMade
  result,         \* what the last operation returned
  pre,            \* history: fs when the running operation started
  bakPre,         \* history: bak when the running operation started
  outcome,        \* history: file -> what this run did with it
  hist,           \* history: the operations completed so far
  fault,          \* history: a file system call failed in this run
  faultsLeft,     \* the number of file system calls that may still fail
  runsLeft,       \* the number of runs the caller may still start
  arg,            \* the argument of the function under test (pure specifications)
  ret,            \* its return value
  disk,           \* installer: destination path -> what the file holds, or NoFile
  dirs,           \* installer: the directories that exist
  extracted,      \* installer: the tools whose unpacked archive is on disk
  downloaded,     \* history: the tools whose download and unpack succeeded
  FILES,          \* installer: the copy list of install
  options,        \* installer: what parseCommandLineArgs returned
  copySuccess,    \* installer: the local copySuccess of install
  copyLog         \* history: what copyFile did with each entry of FILES

vars == <<root, fs, bak, now, pc, op, idx, content, validCapabilitiesSection,
          allSuccessful, fixesMade, result, pre, bakPre, outcome, hist, fault,
          faultsLeft, runsLeft, arg, ret, allValid, checked, configsValid,
          disk, dirs, extracted, downloaded, FILES, options, copySuccess, copyLog>>

\* the variables of validateFilesWithYaml alone
valVars == <<allValid, checked, configsValid>>

\* the variables of the installer's copy step
instVars == <<disk, dirs, extracted, downloaded, FILES, options, copySuccess, copyLog>>

\* the installer has not run
InstIdle ==
  /\ disk = <<>>
  /\ dirs = {}
  /\ extracted = {}
  /\ downloaded = {}
  /\ FILES = <<>>
  /\ options = [forceOverwrite |-> FALSE, help |-> FALSE]
  /\ copySuccess = TRUE
  /\ copyLog = <<>>

----------------------------------------------------------------------------
(* Bounds of the model *)

\* the longest text, in tokens, given to a pure text function
MaxLen == 4

\* the most segments of a base path, and of a generated candidate path
MaxBaseSegs == 2
MaxCandSegs == 2

\* the most blocks (of one or two lines) of a file at the start
MaxBlocks == 3

\* the most runs of the fixer in one behaviour
MaxRuns == 2

\* the clock: Date.now() returns 0..MaxTime
MaxTime == 1

\* the most file system calls that fail in one behaviour
MaxFaults == 1

\* the most lines of a fragment handed to validateYamlSection
MaxFragLines == 3

----------------------------------------------------------------------------
(* Text *)

NL == "\n"
SP == " "

\* the chunks a text is made of
Tokens == {NL, SP, "capabilities:", "Capabilities:", "mode:", "k:", "["}

\* the two spellings of the capabilities key the model holds
CapabilitiesAnyCase == {"capabilities:", "Capabilities:"}

\* the chunks holding a colon: each is a word followed by a colon
KeyTokens == {"capabilities:", "Capabilities:", "mode:", "k:", "description:"}

\* the chunks that are plain scalars, the values of keys
ScalarTokens == {"code", "test"}

\* \s of a JavaScript regular expression, and what trim() removes
Whitespace == {NL, SP}

\* what the file system holds where there is no file: the text of no file
Absent == <<"ENOENT">>
Null == "null"

RECURSIVE SeqsUpTo(_, _)
SeqsUpTo(S, n) ==
  IF n = 0 THEN {<<>>}
  ELSE LET shorter == SeqsUpTo(S, n - 1)
       IN  shorter \cup {Append(s, x) : s \in {t \in shorter : Len(t) = n - 1}, x \in S}

\* String.prototype.split("\n")
RECURSIVE SplitLines(_)
SplitLines(s_) ==
  CHOOSE res \in
    {IF \A i \in 1..Len(s) : s[i] # NL THEN <<s>>
     ELSE \* the first newline
          LET i == CHOOSE j \in 1..Len(s) : s[j] = NL /\ \A k \in 1..(j - 1) : s[k] # NL
          IN  <<SubSeq(s, 1, i - 1)>> \o SplitLines(SubSeq(s, i + 1, Len(s)))
     : s \in {s_}} : TRUE

\* Array.prototype.join("")
RECURSIVE JoinSections(_)
JoinSections(ss) ==
  IF ss = <<>> THEN <<>> ELSE Head(ss) \o JoinSections(Tail(ss))

\* line.trim() === ""
IsBlank(line) == \A i \in 1..Len(line) : line[i] \in Whitespace

\* line.match(/^\s+/)
HasLeadingWs(line) == Len(line) > 0 /\ line[1] \in Whitespace

\* s.includes(":")
IncludesColon(s) == \E i \in 1..Len(s) : s[i] \in KeyTokens

\* position i of s is reached from the start of a line through whitespace only,
\* which is where /^\s*X/m can match an X (\s runs over newlines too)
AfterLineStart(s, i) ==
  \E j \in 1..i : /\ (j = 1 \/ s[j - 1] = NL)
                  /\ \A k \in j..(i - 1) : s[k] \in Whitespace

----------------------------------------------------------------------------
(* splitIntoYamlSections *)

\* (a turn of the loop works on the values the turn before left)
RECURSIVE SplitLoop(_, _, _, _, _)
SplitLoop(lines_, i_, sections_, currentSection_, inYamlBlock_) ==
  CHOOSE res \in
    {IF i > Len(lines)
     THEN IF currentSection # <<>> THEN Append(sections, currentSection) ELSE sections
     ELSE LET line == lines[i] IN
       IF currentSection = <<>> /\ IsBlank(line)
       THEN SplitLoop(lines, i + 1, sections, currentSection, inYamlBlock)
       ELSE IF ~IsBlank(line) /\ ~HasLeadingWs(line) /\ ~inYamlBlock
       THEN SplitLoop(lines, i + 1,
                      IF currentSection # <<>> THEN Append(sections, currentSection)
                                               ELSE sections,
                      line \o <<NL>>, IncludesColon(line))
       ELSE IF inYamlBlock /\ ~IsBlank(line) /\ ~HasLeadingWs(line)
       THEN SplitLoop(lines, i + 1, Append(sections, currentSection),
                      line \o <<NL>>, IncludesColon(line))
       ELSE SplitLoop(lines, i + 1, sections, currentSection \o line \o <<NL>>,
                      inYamlBlock)
     : lines \in {lines_}, i \in {i_}, sections \in {sections_},
       currentSection \in {currentSection_}, inYamlBlock \in {inYamlBlock_}} : TRUE

\* inYamlBlock starting as true: a bug that makes the flag bear on where the
\* first boundary falls
splitIntoYamlSectionsInBlock(text) ==
  IF text = <<>> THEN <<>> ELSE SplitLoop(SplitLines(text), 1, <<>>, <<>>, TRUE)

splitIntoYamlSections(text) ==
  IF text = <<>> THEN <<>> ELSE SplitLoop(SplitLines(text), 1, <<>>, <<>>, FALSE)

----------------------------------------------------------------------------
(* Paths: path.normalize, path.resolve, String.prototype.startsWith *)

Path(a, s, t) == [abs |-> a, segs |-> s, trail |-> t]

\* the empty string
EmptyPath == Path(FALSE, <<>>, FALSE)

\* null where a path is expected: a record that is the string of no path
NullPath == Path(FALSE, <<>>, TRUE)

\* SUPPORTED_AI_TOOL_DIRS
SUPPORTED_AI_TOOL_DIRS == <<".roo">>

\* SYSTEM_PROMPT_FILES
SYSTEM_PROMPT_FILES ==
  <<"system-prompt-architect", "system-prompt-ask", "system-prompt-code",
    "system-prompt-debug", "system-prompt-test">>

\* getAllowedFilePaths: flatMap over the directories of map over the files of
\* path.join(dir, file)
getAllowedFilePaths ==
  LET nf == Len(SYSTEM_PROMPT_FILES)
      n  == Len(SUPPORTED_AI_TOOL_DIRS) * nf
  IN  [i \in 1..n |->
         Path(FALSE, <<SUPPORTED_AI_TOOL_DIRS[((i - 1) \div nf) + 1],
                       SYSTEM_PROMPT_FILES[((i - 1) % nf) + 1]>>, FALSE)]

ALLOWED_SYSTEM_PROMPT_FILES == getAllowedFilePaths

\* ALLOWED_SYSTEM_PROMPT_FILES.includes(filePath)
AllowedIncludes(filePath) ==
  \E i \in 1..Len(ALLOWED_SYSTEM_PROMPT_FILES) : ALLOWED_SYSTEM_PROMPT_FILES[i] = filePath

\* normalizeString of Node's path module: "." is dropped, ".." removes the
\* segment before it, and is kept (relative) or dropped (absolute) when there
\* is none to remove
\* (a call evaluates its arguments once, as JavaScript does: the body is
\* written over the values)
RECURSIVE NormalizeSegs(_, _, _)
NormalizeSegs(segs_, acc_, allowAboveRoot) ==
  CHOOSE res \in
    {IF segs = <<>> THEN acc
     ELSE LET s == Head(segs) IN
       IF s = "." THEN NormalizeSegs(Tail(segs), acc, allowAboveRoot)
       ELSE IF s = ".."
       THEN IF acc # <<>> /\ acc[Len(acc)] # ".."
            THEN NormalizeSegs(Tail(segs), SubSeq(acc, 1, Len(acc) - 1), allowAboveRoot)
            ELSE IF allowAboveRoot
            THEN NormalizeSegs(Tail(segs), Append(acc, ".."), allowAboveRoot)
            ELSE NormalizeSegs(Tail(segs), acc, allowAboveRoot)
       ELSE NormalizeSegs(Tail(segs), Append(acc, s), allowAboveRoot)
     : segs \in {segs_}, acc \in {acc_}} : TRUE

\* path.normalize: the trailing slash is kept, the empty relative path is "."
PathNormalize(p) ==
  LET n == NormalizeSegs(p.segs, <<>>, ~p.abs) IN
  IF n = <<>>
  THEN IF p.abs THEN Path(TRUE, <<>>, FALSE) ELSE Path(FALSE, <<".">>, p.trail)
  ELSE Path(p.abs, n, p.trail)

\* path.resolve(from, to) in the working directory cwd: the rightmost absolute
\* argument starts the path, the working directory if there is none; the
\* result is absolute, normalized and has no trailing slash
PathResolve(from, to, cwd) ==
  LET joined == IF to.abs THEN to.segs
                ELSE IF from.abs THEN from.segs \o to.segs
                ELSE cwd.segs \o from.segs \o to.segs
  IN  Path(TRUE, NormalizeSegs(joined, <<>>, FALSE), FALSE)

\* the string of a path, in units: a slash or a segment name
RECURSIVE RenderSegs(_)
RenderSegs(segs) ==
  IF segs = <<>> THEN <<>>
  ELSE IF Len(segs) = 1 THEN <<segs[1]>>
  ELSE <<segs[1], "/">> \o RenderSegs(Tail(segs))

Render(p) ==
  (IF p.abs THEN <<"/">> ELSE <<>>) \o RenderSegs(p.segs)
    \o (IF p.trail /\ p.segs # <<>> THEN <<"/">> ELSE <<>>)

\* the segment names of the model of which one is the beginning of another
ProperPrefix == {<<"proj", "proj2">>, <<".", "..">>, <<".", ".roo">>}

\* a.startsWith(b) on the strings of two paths: b's units are a's first ones,
\* the last of them possibly only the beginning of a's
StartsWith(a, b) ==
  \E ra \in {Render(a)}, rb \in {Render(b)} :
      \/ rb = <<>>
      \/ /\ Len(rb) <= Len(ra)
         /\ \A i \in 1..(Len(rb) - 1) : ra[i] = rb[i]
         /\ \/ ra[Len(rb)] = rb[Len(rb)]
            \/ <<rb[Len(rb)], ra[Len(rb)]>> \in ProperPrefix

----------------------------------------------------------------------------
(* validatePath *)

\* validatePath without the allow-list: a bug that lets any path inside (or
\* beside) the base through
validatePathNoAllowList(basePath, filePath, cwd) ==
  IF basePath = EmptyPath \/ filePath = EmptyPath THEN NullPath
  ELSE LET normalizedBase == PathNormalize(basePath)
           targetPath == PathResolve(normalizedBase, filePath, cwd)
       IN  IF ~StartsWith(targetPath, normalizedBase) THEN NullPath
           ELSE targetPath

validatePath(basePath, filePath, cwd) ==
  IF basePath = EmptyPath \/ filePath = EmptyPath THEN NullPath
  ELSE LET normalizedBase == PathNormalize(basePath)
           targetPath == PathResolve(normalizedBase, filePath, cwd)
       IN  IF ~StartsWith(targetPath, normalizedBase) THEN NullPath
           ELSE IF ~AllowedIncludes(filePath) THEN NullPath
           ELSE targetPath

----------------------------------------------------------------------------
(* validateYamlSection *)

\* section.trim()
RECURSIVE TrimStart(_)
TrimStart(s) ==
  IF s # <<>> /\ Head(s) \in Whitespace THEN TrimStart(Tail(s)) ELSE s

RECURSIVE TrimEnd(_)
TrimEnd(s) ==
  IF s # <<>> /\ s[Len(s)] \in Whitespace THEN TrimEnd(SubSeq(s, 1, Len(s) - 1)) ELSE s

Trim(s) == TrimEnd(TrimStart(s))

\* the document marker, a chunk of its own
DocumentMarker == "---"

\* trimmed.startsWith("---")
StartsWithDocumentMarker(trimmed) == trimmed # <<>> /\ Head(trimmed) = DocumentMarker

\* the match of line 422 taken to fail: a bug that never wraps a fragment
MatchesBareKeyNever(trimmed) == FALSE

\* trimmed.match(/^\w+:/): the text starts with a word and a colon
MatchesBareKey(trimmed) == trimmed # <<>> /\ Head(trimmed) \in KeyTokens

\* lines.map(line => `  ${line}`).join("\n")
RECURSIVE IndentAndJoin(_)
IndentAndJoin(lines) ==
  IF lines = <<>> THEN <<>>
  ELSE IF Len(lines) = 1 THEN <<SP, SP>> \o lines[1]
  ELSE <<SP, SP>> \o lines[1] \o <<NL>> \o IndentAndJoin(Tail(lines))

\* `temp_root:\n${...}`
WrapUnderTempRoot(section) ==
  <<"temp_root:", NL>> \o IndentAndJoin(SplitLines(section))

\* the number of spaces a line starts with
Indent(line) ==
  IF \A k \in 1..Len(line) : line[k] = SP THEN Len(line)
  ELSE CHOOSE n \in 0..(Len(line) - 1) :
         /\ \A k \in 1..n : line[k] = SP
         /\ line[n + 1] # SP

\* the line is a mapping entry with a plain scalar for its value
HasInlineValue(line) ==
  \E i \in 1..Len(line) : \E j \in (i + 1)..Len(line) :
    line[i] \in KeyTokens /\ line[j] \in ScalarTokens

\* readBlockMapping of js-yaml, "bad indentation of a mapping entry": a line
\* with a key is indented more than the entry before it and that entry has
\* its value on its line (the plain scalar runs on to the colon), or it is
\* indented less and as no mapping that is open
BadIndentation(text_) ==
  \E lines \in {SplitLines(text_)} :
    \E j \in 2..Len(lines) :
      /\ ~IsBlank(lines[j])
      /\ IncludesColon(lines[j])
      /\ \E p \in 1..(j - 1) :
           /\ ~IsBlank(lines[p])
           /\ \A m \in (p + 1)..(j - 1) : IsBlank(lines[m])
           /\ \/ /\ Indent(lines[j]) > Indent(lines[p])
                 /\ HasInlineValue(lines[p])
              \/ /\ Indent(lines[j]) < Indent(lines[p])
                 /\ ~\E q \in 1..(p - 1) :
                      /\ ~IsBlank(lines[q])
                      /\ Indent(lines[q]) = Indent(lines[j])
                      /\ \A m \in q..p :
                           IsBlank(lines[m]) \/ Indent(lines[m]) >= Indent(lines[j])

\* yaml.load of js-yaml, as far as the model's chunks go: it throws on a text
\* that opens a flow sequence and never closes it, and on a mapping entry that
\* is badly indented
\* the text after the marker that opens the document, and its line
AfterDocumentMarker(text) ==
  IF text # <<>> /\ Head(text) = DocumentMarker
  THEN IF Len(text) >= 2 /\ text[2] = NL THEN SubSeq(text, 3, Len(text)) ELSE Tail(text)
  ELSE text

YamlLoadThrows(text_) ==
  \E text \in {AfterDocumentMarker(text_)} :
    \/ \E i \in 1..Len(text) : text[i] = "["
    \/ BadIndentation(text)

\* no call of yaml.load
NotParsed == <<"not parsed">>

\* the argument of yaml.load in validateYamlSection, if it is called
ParserInput(section) ==
  IF section = <<>> \/ ~IncludesColon(section) THEN NotParsed
  ELSE LET trimmed == Trim(section) IN
       IF StartsWithDocumentMarker(trimmed) \/ ~MatchesBareKey(trimmed)
       THEN section
       ELSE WrapUnderTempRoot(section)

validateYamlSection(section_) ==
  CHOOSE res \in
    {IF section = <<>> \/ ~IncludesColon(section)
     THEN [valid |-> TRUE, error |-> Null]
     ELSE LET parsed == ParserInput(section)
          IN  IF YamlLoadThrows(parsed)
              THEN [valid |-> FALSE, error |-> "YAMLException"]
              ELSE [valid |-> TRUE, error |-> Null]
     : section \in {section_}} : TRUE

----------------------------------------------------------------------------
(* fixDuplicateCapabilities: the computations of the loop body *)

\* content.match(/^\s*capabilities:/gm): the number of matches (0 for null)
CountCapabilitiesMatches(text) ==
  Cardinality({i \in 1..Len(text) : text[i] = "capabilities:" /\ AfterLineStart(text, i)})

\* matches.length <= 1 with the i flag dropped nowhere, but the test turned
\* round: a bug that sends the files without duplicates on and spares the others
HasDuplicatesInverted(text) == CountCapabilitiesMatches(text) <= 1

\* !(!matches || matches.length <= 1)
HasDuplicates(text) == CountCapabilitiesMatches(text) > 1

\* section.match(/^\s*capabilities:/mi)
MatchesCapabilities(section) ==
  \E i \in 1..Len(section) :
    section[i] \in CapabilitiesAnyCase /\ AfterLineStart(section, i)

\* s.match(/^\s*mode:/mi)
MatchesMode(section) ==
  \E i \in 1..Len(section) : section[i] = "mode:" /\ AfterLineStart(section, i)

\* the sections.forEach of lines 176-182: the two lists, each in file order
CapabilitiesSectionsOf(sections) == SelectSeq(sections, MatchesCapabilities)

\* the else of line 179 dropped and the push made for every section: a bug
\* that leaves the duplicates among the other sections
OtherSectionsOfAll(sections) == sections

OtherSectionsOf(sections) ==
  SelectSeq(sections, LAMBDA sec : ~MatchesCapabilities(sec))

\* the loop of lines 190-199: the index of the first valid section, 0 if none
FirstValidIndex(capabilitiesSections_) ==
  CHOOSE res \in
    {IF \E i \in 1..Len(capabilitiesSections) :
          validateYamlSection(capabilitiesSections[i]).valid
     THEN CHOOSE i \in 1..Len(capabilitiesSections) :
            /\ validateYamlSection(capabilitiesSections[i]).valid
            /\ \A j \in 1..(i - 1) : ~validateYamlSection(capabilitiesSections[j]).valid
     ELSE 0
     : capabilitiesSections \in {capabilitiesSections_}} : TRUE

\* otherSections.findIndex(s => s.match(/^\s*mode:/mi)), counted from 1, 0 if none
ModeIndex(otherSections_) ==
  CHOOSE res \in
    {IF \E i \in 1..Len(otherSections) : MatchesMode(otherSections[i])
     THEN CHOOSE i \in 1..Len(otherSections) :
            /\ MatchesMode(otherSections[i])
            /\ \A j \in 1..(i - 1) : ~MatchesMode(otherSections[j])
     ELSE 0
     : otherSections \in {otherSections_}} : TRUE

\* the array of lines 207-211, joined
NewContent(otherSections, modeIndex, chosen) ==
  JoinSections(SubSeq(otherSections, 1, modeIndex) \o <<chosen>>
                 \o SubSeq(otherSections, modeIndex + 1, Len(otherSections)))

\* the content read written back as it is: a bug that makes the rewrite a
\* no-op
FixPlanWritesBack(text) == [do |-> "write", chosen |-> <<>>, newContent |-> text]

\* what lines 170-237 decide for a text with duplicates: what to do, and the
\* chosen section and the new content when the file is to be written
FixPlan(text) ==
  LET sections == splitIntoYamlSections(text)
      capabilitiesSections == CapabilitiesSectionsOf(sections)
      otherSections == OtherSectionsOf(sections)
      validIndex == FirstValidIndex(capabilitiesSections)
      modeIndex == ModeIndex(otherSections)
  IN  IF Len(capabilitiesSections) <= 1
      THEN [do |-> "single", chosen |-> <<>>, newContent |-> <<>>]
      ELSE IF validIndex = 0
      THEN [do |-> "no-valid", chosen |-> <<>>, newContent |-> <<>>]
      ELSE IF modeIndex = 0
      THEN [do |-> "no-anchor", chosen |-> capabilitiesSections[validIndex],
            newContent |-> <<>>]
      ELSE [do |-> "write", chosen |-> capabilitiesSections[validIndex],
            newContent |-> NewContent(otherSections, modeIndex,
                                      capabilitiesSections[validIndex])]

----------------------------------------------------------------------------
(* The file system the sanitizer runs on *)

\* process.cwd()
Cwd == Path(TRUE, <<"home">>, FALSE)

\* the project roots of the model: an absolute directory (what installer.js
\* passes), the same given relative to the working directory, a path that is
\* a file, a path that does not exist, and the empty string
ProjectDir == [path |-> Path(TRUE, <<"home", "proj">>, FALSE), kind |-> "dir"]
OtherRoots ==
  {[path |-> Path(FALSE, <<"proj">>, FALSE), kind |-> "dir"],
   [path |-> Path(TRUE, <<"home", "proj">>, FALSE), kind |-> "file"],
   [path |-> Path(TRUE, <<"home", "proj">>, FALSE), kind |-> "missing"],
   [path |-> EmptyPath, kind |-> "missing"]}

\* the allow-listed files of the project, by absolute path
FilesUnder(r) ==
  {PathResolve(r.path, ALLOWED_SYSTEM_PROMPT_FILES[i], Cwd) :
     i \in 1..Len(ALLOWED_SYSTEM_PROMPT_FILES)}

\* the blocks a file of the model is made of, each one line or two: a blank
\* line, the keys at the top level (capabilities: also followed by text that
\* does not parse, and capitalized), an indented capabilities: line, and
\* another key with a mode: or a capabilities: line nested in it
Blocks ==
  {<<>>, <<"mode:">>, <<"capabilities:">>, <<"capabilities:", "[">>,
   <<"Capabilities:">>, <<SP, "capabilities:">>,
   <<"k:", NL, SP, "mode:">>, <<"k:", NL, SP, "capabilities:">>}

\* lines.join("\n")
RECURSIVE JoinLines(_)
JoinLines(lines) ==
  IF lines = <<>> THEN <<>>
  ELSE IF Len(lines) = 1 THEN lines[1]
  ELSE lines[1] \o <<NL>> \o JoinLines(Tail(lines))

\* the texts of at most MaxBlocks blocks: a last, blank block gives the text
\* its final newline
\* and one text of four blocks: a capabilities: section with a second
\* capabilities: line in it, before another, after the mode: section
FileTexts ==
  {JoinLines(bs) : bs \in SeqsUpTo(Blocks, MaxBlocks)}
    \cup {JoinLines(<<<<"mode:">>, <<"capabilities:">>, <<SP, "capabilities:">>,
                      <<"capabilities:">>>>)}

\* the text of the file under a root the fixer turns down
SampleTexts ==
  {JoinLines(<<<<"mode:">>, <<"capabilities:">>, <<"capabilities:">>, <<>>>>)}

\* the allow-listed file the file system may hold: the others are absent
TargetFile(r) == PathResolve(r.path, ALLOWED_SYSTEM_PROMPT_FILES[3], Cwd)

OneFile(files, f, text) == [g \in files |-> IF g = f THEN text ELSE Absent]

Init ==
  /\ root \in {ProjectDir} \cup OtherRoots
  /\ \E text \in (IF root = ProjectDir THEN FileTexts ELSE SampleTexts) \cup {Absent} :
       fs = OneFile(FilesUnder(root), TargetFile(root), text)
  /\ bak = {}
  /\ now = 0
  /\ pc = "idle"
  /\ op = "none"
  /\ idx = 0
  /\ content = <<>>
  /\ validCapabilitiesSection = <<>>
  /\ allSuccessful = TRUE
  /\ allValid = TRUE
  /\ checked = <<>>
  /\ configsValid = TRUE
  /\ InstIdle
  /\ fixesMade = FALSE
  /\ result = FALSE
  /\ pre = fs
  /\ bakPre = {}
  /\ outcome = [g \in DOMAIN fs |-> "pending"]
  /\ hist = <<>>
  /\ fault = FALSE
  /\ \/ \* one run, on a file system whose calls may fail
        faultsLeft = MaxFaults /\ runsLeft = 1
     \/ \* runs in a row, on a file system whose calls do not fail
        faultsLeft = 0 /\ runsLeft = MaxRuns
  /\ arg = Null
  /\ ret = Null

----------------------------------------------------------------------------
(* fixDuplicateCapabilities, step by step *)

\* a file system call throws
Throws ==
  /\ faultsLeft > 0
  /\ faultsLeft' = faultsLeft - 1
  /\ fault' = TRUE

\* a file system call returns
Returns == UNCHANGED <<fault, faultsLeft>>

\* return true, whatever the run met: a bug that hides every failure
ReturnTrue(value) ==
  /\ result' = TRUE
  /\ pc' = "idle"
  /\ op' = "none"
  /\ idx' = 0
  /\ hist' = Append(hist, [op |-> "fix", result |-> TRUE, fault |-> fault',
                           fixesMade |-> fixesMade'])

\* the return statement: the run is over and its value is handed to the caller
Return(value) ==
  /\ result' = value
  /\ pc' = "idle"
  /\ op' = "none"
  /\ idx' = 0
  /\ hist' = Append(hist, [op |-> "fix", result |-> value, fault |-> fault',
                           fixesMade |-> fixesMade'])

\* break in the place of continue: a bug that leaves the loop at the first
\* file it has dealt with
ContinueBreaks(f, what) ==
  /\ outcome' = [outcome EXCEPT ![f] = what]
  /\ idx' = Len(ALLOWED_SYSTEM_PROMPT_FILES) + 1
  /\ pc' = "fix-loop"

\* continue: on to the next file of the loop
Continue(f, what) ==
  /\ outcome' = [outcome EXCEPT ![f] = what]
  /\ idx' = idx + 1
  /\ pc' = "fix-loop"

\* the try of lines 150-242 without its catch: a bug that lets the exception
\* of a file system call out of fixDuplicateCapabilities
CatchRethrows(f, what) ==
  /\ outcome' = [outcome EXCEPT ![f] = what]
  /\ idx' = idx
  /\ pc' = "thrown"

\* the catch of lines 239-242: the failure is logged and the loop goes on
Catch(f, what) == Continue(f, what)

\* where the loop body goes after createBackup, with the test of its result
\* left out: a bug that rewrites a file of which no backup was made
AfterBackupUnchecked(made) == "fix-rewrite"

\* lines 164-167: on to the sections, or continue
AfterBackup(made) == IF made THEN "fix-rewrite" ELSE "fix-loop"

\* projectRoot && fs.existsSync(projectRoot)
RootExists(r) == r.path # EmptyPath /\ r.kind # "missing"

\* the test of line 124 left out: a bug that takes any existing path for the
\* project root
IsDirectoryUnchecked(r) == TRUE

\* stats.isDirectory()
IsDirectory(r) == r.kind = "dir"

\* lines 113-134: the checks of the project root
FixStart ==
  /\ pc = "idle"
  /\ UNCHANGED <<valVars, instVars>>
  /\ runsLeft > 0
  /\ runsLeft' = runsLeft - 1
  /\ pre' = fs
  /\ bakPre' = bak
  /\ outcome' = [g \in DOMAIN fs |-> "pending"]
  /\ content' = <<>>
  /\ validCapabilitiesSection' = <<>>
  /\ fixesMade' = FALSE
  /\ UNCHANGED <<root, fs, bak, now, arg, ret>>
  /\ IF ~RootExists(root)
     THEN \* !projectRoot || !fs.existsSync(projectRoot)
          /\ allSuccessful' = FALSE
          /\ fault' = FALSE /\ UNCHANGED faultsLeft
          /\ Return(FALSE)
     ELSE \/ \* statSync throws
             /\ Throws
             /\ allSuccessful' = FALSE
             /\ Return(FALSE)
          \/ /\ fault' = FALSE /\ UNCHANGED faultsLeft
             /\ IF ~IsDirectory(root)
                THEN \* !stats.isDirectory()
                     /\ allSuccessful' = FALSE
                     /\ Return(FALSE)
                ELSE /\ allSuccessful' = TRUE
                     /\ idx' = 1
                     /\ op' = "fix"
                     /\ pc' = "fix-loop"
                     /\ UNCHANGED <<result, hist>>

\* lines 137-167: validatePath, existsSync, readFileSync and the count
FixExamine ==
  /\ pc = "fix-loop" /\ op = "fix"
  /\ UNCHANGED <<valVars, instVars>>
  /\ idx <= Len(ALLOWED_SYSTEM_PROMPT_FILES)
  /\ LET file == ALLOWED_SYSTEM_PROMPT_FILES[idx]
         filePath == validatePath(root.path, file, Cwd)
     IN  /\ UNCHANGED <<root, fs, bak, now, op, validCapabilitiesSection, fixesMade,
                        result, pre, bakPre, hist, runsLeft, arg, ret>>
         /\ IF filePath = NullPath
            THEN /\ allSuccessful' = FALSE
                 /\ Continue(PathResolve(root.path, file, Cwd), "rejected")
                 /\ Returns
                 /\ UNCHANGED content
            ELSE IF fs[filePath] = Absent
            THEN /\ Continue(filePath, "missing")
                 /\ Returns
                 /\ UNCHANGED <<content, allSuccessful>>
            ELSE \/ \* readFileSync throws: the catch of line 239
                    /\ Throws
                    /\ allSuccessful' = FALSE
                    /\ Catch(filePath, "read-failed")
                    /\ UNCHANGED content
                 \/ /\ Returns
                    /\ content' = fs[filePath]
                    /\ UNCHANGED allSuccessful
                    /\ IF ~HasDuplicates(fs[filePath])
                       THEN Continue(filePath, "no-duplicates")
                       ELSE /\ pc' = "fix-backup"
                            /\ UNCHANGED <<idx, outcome>>

\* createBackup (lines 92-106) and the test of its result (lines 164-167)
FixBackup ==
  /\ pc = "fix-backup"
  /\ UNCHANGED <<valVars, instVars>>
  /\ LET filePath == validatePath(root.path, ALLOWED_SYSTEM_PROMPT_FILES[idx], Cwd)
         Failed == /\ allSuccessful' = (allSuccessful /\ AfterBackup(FALSE) # "fix-loop")
                   /\ IF AfterBackup(FALSE) = "fix-loop"
                      THEN Continue(filePath, "backup-failed")
                      ELSE pc' = AfterBackup(FALSE) /\ UNCHANGED <<idx, outcome>>
                   /\ UNCHANGED <<bak, now>>
     IN  /\ UNCHANGED <<root, fs, op, content, validCapabilitiesSection, fixesMade,
                        result, pre, bakPre, hist, runsLeft, arg, ret>>
         /\ IF fs[filePath] = Absent
            THEN \* !fs.existsSync(filePath)
                 Returns /\ Failed
            ELSE \/ \* copyFileSync throws
                    Throws /\ Failed
                 \/ \* the copy is made, under the name Date.now() gives
                    /\ Returns
                    /\ \E t \in now..MaxTime :
                         /\ now' = t
                         /\ bak' = {b \in bak : ~(b.file = filePath /\ b.t = t)}
                              \cup {[file |-> filePath, t |-> t, content |-> fs[filePath]]}
                    /\ pc' = AfterBackup(TRUE)
                    /\ outcome' = [outcome EXCEPT ![filePath] = "backed-up"]
                    /\ UNCHANGED <<idx, allSuccessful>>

\* lines 169-217: the sections, the choice, the new content and its write
FixRewrite ==
  /\ pc = "fix-rewrite"
  /\ UNCHANGED <<valVars, instVars>>
  /\ LET filePath == validatePath(root.path, ALLOWED_SYSTEM_PROMPT_FILES[idx], Cwd)
         plan == FixPlan(content)
     IN  /\ UNCHANGED <<root, bak, now, op, content, fixesMade, result, pre, bakPre,
                        hist, runsLeft, arg, ret>>
         /\ validCapabilitiesSection' = plan.chosen
         /\ IF plan.do = "single"
            THEN /\ Continue(filePath, "single")
                 /\ Returns
                 /\ UNCHANGED <<fs, allSuccessful>>
            ELSE IF plan.do \in {"no-valid", "no-anchor"}
            THEN /\ allSuccessful' = FALSE
                 /\ Continue(filePath, plan.do)
                 /\ Returns
                 /\ UNCHANGED fs
            ELSE \/ \* writeFileSync throws, the file as it was or cut short
                    /\ Throws
                    /\ \E left \in {fs[filePath], <<>>} :
                         fs' = [fs EXCEPT ![filePath] = left]
                    /\ allSuccessful' = FALSE
                    /\ Catch(filePath, "write-failed")
                 \/ /\ Returns
                    /\ fs' = [fs EXCEPT ![filePath] = plan.newContent]
                    /\ pc' = "fix-verify"
                    /\ UNCHANGED <<idx, outcome, allSuccessful>>

\* lines 219-229: the file is read back and its checksum compared with the
\* original's (two texts have one SHA-256 checksum when they are equal)
FixVerify ==
  /\ pc = "fix-verify"
  /\ UNCHANGED <<valVars, instVars>>
  /\ LET filePath == validatePath(root.path, ALLOWED_SYSTEM_PROMPT_FILES[idx], Cwd) IN
     /\ UNCHANGED <<root, fs, bak, now, op, content, validCapabilitiesSection,
                    result, pre, bakPre, hist, runsLeft, arg, ret>>
     /\ \/ \* readFileSync throws
           /\ Throws
           /\ allSuccessful' = FALSE
           /\ Catch(filePath, "verify-failed")
           /\ UNCHANGED fixesMade
        \/ /\ Returns
           /\ IF content # fs[filePath]
              THEN /\ fixesMade' = TRUE
                   /\ Continue(filePath, "fixed")
                   /\ UNCHANGED allSuccessful
              ELSE /\ allSuccessful' = FALSE
                   /\ Continue(filePath, "not-updated")
                   /\ UNCHANGED fixesMade

\* lines 245-254: the loop is over
FixReturn ==
  /\ pc = "fix-loop" /\ op = "fix"
  /\ UNCHANGED <<valVars, instVars>>
  /\ idx > Len(ALLOWED_SYSTEM_PROMPT_FILES)
  /\ UNCHANGED <<root, fs, bak, now, content, validCapabilitiesSection, allSuccessful,
                 fixesMade, pre, bakPre, outcome, fault, faultsLeft, runsLeft,
                 arg, ret>>
  /\ Return(allSuccessful)

Next ==
  \/ FixStart
  \/ FixExamine
  \/ FixBackup
  \/ FixRewrite
  \/ FixVerify
  \/ FixReturn

Spec == Init /\ [][Next]_vars

----------------------------------------------------------------------------
(* The terms of the specification: Section, Capabilities Section, Mode     *)
(* Section and Other Section, by the first line of a Section               *)

FirstLine(section) == Head(SplitLines(section))

FirstLineMatches(section, keys) ==
  LET line == TrimStart(FirstLine(section)) IN line # <<>> /\ line[1] \in keys

IsCapabilitiesSection(section) == FirstLineMatches(section, CapabilitiesAnyCase)
IsModeSection(section) == FirstLineMatches(section, {"mode:"})
IsOtherSection(section) == ~IsCapabilitiesSection(section)

Sections(text) == IF text = Absent THEN <<>> ELSE splitIntoYamlSections(text)
CapabilitiesSections(text) == SelectSeq(Sections(text), IsCapabilitiesSection)
OtherSections(text) == SelectSeq(Sections(text), IsOtherSection)

IsValid(section) == validateYamlSection(section).valid

\* the index of the first Mode Section among the sections, 0 if there is none
FirstModeSection(sections) ==
  IF \E i \in 1..Len(sections) : IsModeSection(sections[i])
  THEN CHOOSE i \in 1..Len(sections) :
         /\ IsModeSection(sections[i])
         /\ \A j \in 1..(i - 1) : ~IsModeSection(sections[j])
  ELSE 0

\* the run is over and its value returned
RunOver == pc = "idle" /\ hist # <<>>

\* a run is going on or over
RunStarted == op = "fix" \/ RunOver

\* a run that follows another is going on or over
InLaterRun == (op = "fix" /\ Len(hist) >= 1) \/ (pc = "idle" /\ Len(hist) >= 2)

\* no file system call has failed, in this run or in one before
NoFaults == ~fault /\ \A i \in 1..Len(hist) : ~hist[i].fault

\* the run has read the file
Processed(f) ==
  /\ pre[f] # Absent
  /\ outcome[f] \notin {"pending", "rejected", "missing", "read-failed"}

\* the outcomes that make no failure of a file
NoFailure == {"pending", "missing", "no-duplicates", "backed-up", "single", "fixed"}

\* the backups of a file
BackupsOf(f, backups) == {b \in backups : b.file = f}

\* the file the loop is at
CurrentFile == validatePath(root.path, ALLOWED_SYSTEM_PROMPT_FILES[idx], Cwd)

\* C1: a Target File changes only after createBackup has returned true for it
\* in the same run, and when it changes a backup holds the content the file
\* had before the run; when createBackup returns false the file stays as it
\* was and the run returns false.
C1_BackupBeforeWrite ==
  /\ [][\A f \in DOMAIN fs :
          fs'[f] # fs[f] =>
            /\ pc = "fix-rewrite" /\ f = CurrentFile
            /\ outcome[f] = "backed-up"
            /\ fs[f] = pre[f]
            /\ \E b \in bak \ bakPre : b.file = f /\ b.content = pre[f]]_vars
  /\ [](\A f \in DOMAIN fs :
          outcome[f] = "backup-failed" =>
            /\ fs[f] = pre[f]
            /\ ~allSuccessful
            /\ (RunOver => ~result))

\* the file has been rewritten, its backup beside it
C1_Witness ==
  /\ pc = "fix-verify"
  /\ fs[CurrentFile] # pre[CurrentFile]
  /\ \E b \in bak : b.file = CurrentFile /\ b.content = pre[CurrentFile]

C4_NoDuplicatesUntouched ==
  \A f \in DOMAIN fs :
    (RunStarted /\ pre[f] # Absent /\ CountCapabilitiesMatches(pre[f]) <= 1) =>
      /\ fs[f] = pre[f]
      /\ BackupsOf(f, bak) = BackupsOf(f, bakPre)
      /\ outcome[f] \in {"pending", "rejected", "read-failed", "no-duplicates"}
      /\ (/\ outcome[f] = "no-duplicates"
          /\ \A g \in DOMAIN fs : outcome[g] \in NoFailure)
           => (allSuccessful /\ (RunOver => result))

\* the run is over and has found the one capabilities: line of the file
C4_Witness ==
  \E f \in DOMAIN fs :
    /\ RunOver /\ result
    /\ outcome[f] = "no-duplicates"
    /\ CountCapabilitiesMatches(pre[f]) = 1
    /\ fs[f] = pre[f]

\* C5: a Target File with more than one capabilities: block (lines and
\* Capabilities Sections) and no Section whose first line matches mode: makes
\* the run return false, and is left as it was.
C5_NoAnchorFails ==
  \A f \in DOMAIN fs :
    (/\ RunOver /\ ~fault /\ Processed(f)
     /\ CountCapabilitiesMatches(pre[f]) > 1
     /\ Len(CapabilitiesSections(pre[f])) > 1
     /\ FirstModeSection(Sections(pre[f])) = 0) =>
      (~result /\ fs[f] = pre[f])

\* C6: a Target File with more than one Capabilities Section, one of them
\* valid, and a Mode Section holds exactly one Capabilities Section when the
\* run has returned.
C6_ExactlyOneCapabilitiesSection ==
  \A f \in DOMAIN fs :
    (/\ RunOver /\ ~fault /\ Processed(f)
     /\ Len(CapabilitiesSections(pre[f])) > 1
     /\ \E i \in 1..Len(CapabilitiesSections(pre[f])) :
          IsValid(CapabilitiesSections(pre[f])[i])
     /\ FirstModeSection(Sections(pre[f])) # 0) =>
      Len(CapabilitiesSections(fs[f])) = 1

\* C7: the content written is the Other Sections up to and including the
\* first Mode Section among them, then the chosen Capabilities Section, then
\* the Other Sections that remain.
C7_RewriteLayout ==
  pc = "fix-verify" =>
    LET others == OtherSections(content)
        anchor == FirstModeSection(others)
    IN  /\ anchor # 0
        /\ IsCapabilitiesSection(validCapabilitiesSection)
        /\ fs[CurrentFile] =
             JoinSections(SubSeq(others, 1, anchor) \o <<validCapabilitiesSection>>
                            \o SubSeq(others, anchor + 1, Len(others)))

\* C8: the section kept is the first valid one of the Capabilities Sections of
\* the file; when the file has several and none is valid, it stays as it was
\* and the run returns false.
C8_FirstValidKept ==
  /\ pc = "fix-verify" =>
       LET caps == CapabilitiesSections(content) IN
       \E i \in 1..Len(caps) :
         /\ caps[i] = validCapabilitiesSection
         /\ IsValid(caps[i])
         /\ \A j \in 1..(i - 1) : ~IsValid(caps[j])
  /\ \A f \in DOMAIN fs :
       (/\ RunOver /\ ~fault /\ Processed(f)
        /\ CountCapabilitiesMatches(pre[f]) > 1
        /\ Len(CapabilitiesSections(pre[f])) > 1
        /\ \A i \in 1..Len(CapabilitiesSections(pre[f])) :
             ~IsValid(CapabilitiesSections(pre[f])[i])) =>
         (~result /\ fs[f] = pre[f])

\* the project root is an existing directory
ExistingDirectory == root.path # EmptyPath /\ root.kind = "dir"

\* the outcomes that leave the run's value true: the file does not exist,
\* needed no fix, or was fixed
Succeeded == {"missing", "no-duplicates", "single", "fixed"}

\* the outcomes that make the run's value false: the path rejected, an I/O
\* error, the backup failed, no valid section, no anchor, the check after the
\* write failed
Failed ==
  {"rejected", "read-failed", "write-failed", "verify-failed", "backup-failed",
   "no-valid", "no-anchor", "not-updated"}

C15_BadRootTouchesNothing ==
  (RunStarted /\ ~ExistingDirectory) =>
    /\ RunOver /\ ~result
    /\ fs = pre
    /\ bak = bakPre
    /\ content = <<>>
    /\ \A f \in DOMAIN fs : outcome[f] = "pending"

\* the run on a project root that is a file is over
C15_Witness ==
  /\ RunOver /\ ~result /\ ~fault
  /\ root.path # EmptyPath /\ root.kind = "file"
  /\ \E f \in DOMAIN fs : fs[f] # Absent

\* C16: a step of a run changes the file system only by rewriting an existing
\* allow-listed file in place or by creating a backup sibling of one that was
\* not there before: no Target File appears or disappears, and no backup
\* disappears or is written over.
C16_OnlyRewritesAndNewBackups ==
  [][/\ \A f \in DOMAIN fs : (fs'[f] = Absent) <=> (fs[f] = Absent)
     /\ \A f \in DOMAIN fs : fs'[f] # fs[f] => f \in FilesUnder(root)
     /\ bak \subseteq bak'
     /\ \A b \in bak' \ bak :
          /\ b.file \in FilesUnder(root) /\ fs[b.file] # Absent
          /\ ~\E a \in bak : a.file = b.file /\ a.t = b.t]_vars

\* C21: the fixer takes a Section for a Capabilities Section exactly when the
\* Section's first non-blank line matches capabilities: (after optional
\* whitespace, in any case); every other Section, whatever its later lines
\* hold, is an Other Section, kept by the rewrite, and the two groups keep the
\* order of the file.
C21_ClassifiesByFirstLine ==
  /\ pc = "fix-rewrite" =>
       LET sections == splitIntoYamlSections(content) IN
       /\ CapabilitiesSectionsOf(sections) = SelectSeq(sections, IsCapabilitiesSection)
       /\ OtherSectionsOf(sections) = SelectSeq(sections, IsOtherSection)
  /\ pc = "fix-verify" => OtherSections(fs[CurrentFile]) = OtherSections(content)

\* C28: backups are made only for rewrites or reported failures: when a run
\* has made a backup of a file, it has rewritten the file or it returns
\* false; no run that returns true leaves a new backup beside a file it has
\* not modified.
C28_BackupMeansRewriteOrFailure ==
  \A f \in DOMAIN fs :
    (RunOver /\ \E b \in bak \ bakPre : b.file = f) =>
      (fs[f] # pre[f] \/ ~result)

\* the number of characters of a chunk, and String.prototype.length
CharsOf(token) ==
  CASE token \in CapabilitiesAnyCase -> 13
    [] token = "mode:" -> 5
    [] token = "k:" -> 2
    [] OTHER -> 1

RECURSIVE StringLength(_)
StringLength(s) == IF s = <<>> THEN 0 ELSE CharsOf(Head(s)) + StringLength(Tail(s))

\* C26: whenever the fixer has written a file, the content written differs
\* from the content read, being strictly shorter; so the comparison of the
\* checksums after the write never finds the file not updated.
C26_RewriteIsShorter ==
  /\ pc = "fix-verify" =>
       /\ fs[CurrentFile] # content
       /\ StringLength(fs[CurrentFile]) < StringLength(content)
  /\ \A f \in DOMAIN fs : RunStarted => outcome[f] # "not-updated"

\* C26's case: the run is over, the file was written and found updated, and
\* it is shorter than it was
C26_Witness ==
  \E f \in DOMAIN fs :
    /\ RunOver
    /\ outcome[f] = "fixed"
    /\ StringLength(fs[f]) < StringLength(pre[f])

----------------------------------------------------------------------------
(* validateFilesWithYaml, step by step, and validateAllToolConfigurations  *)
(* of installer.js, which calls the fixer and then the validator           *)

\* invalidSections left at 0: a bug that reports every file valid
InvalidSectionsNone(text) == 0

\* invalidSections after the loop of lines 311-323: the number of sections
\* that hold a colon and do not validate
InvalidSections(text) ==
  LET sections == splitIntoYamlSections(text) IN
  Cardinality({i \in 1..Len(sections) :
                 /\ IncludesColon(sections[i])
                 /\ ~validateYamlSection(sections[i]).valid})

\* the sections the loop of lines 311-323 hands to validateYamlSection
SectionsChecked(text) == SelectSeq(splitIntoYamlSections(text), IncludesColon)

\* the file opened with a flag that truncates it: a bug that empties what it
\* reads
ValReadTruncates(f) == fs' = [fs EXCEPT ![f] = <<>>]

\* fs.readFileSync(filePath, "utf8"): the file is read, nothing is written
ValRead(f) == fs' = fs

\* the return statements of validateFilesWithYaml
ReturnValid(value) ==
  /\ result' = value
  /\ pc' = "idle"
  /\ op' = "none"
  /\ idx' = 0
  /\ hist' = Append(hist, [op |-> "validate", result |-> value, fault |-> fault',
                           fixesMade |-> FALSE])

\* continue: on to the next file of the validator's loop
ContinueValid(f, what) ==
  /\ outcome' = [outcome EXCEPT ![f] = what]
  /\ idx' = idx + 1
  /\ pc' = "val-loop"

\* installer.js, lines 454-458: the validator is called when the fixer has
\* returned; sanitizer.js, lines 262-282: the checks of the project root
ValStart ==
  /\ pc = "idle"
  /\ UNCHANGED instVars
  /\ hist # <<>> /\ hist[Len(hist)].op = "fix"
  /\ pre' = fs
  /\ bakPre' = bak
  /\ outcome' = [g \in DOMAIN fs |-> "pending"]
  /\ content' = <<>>
  /\ checked' = <<>>
  /\ UNCHANGED <<root, fs, bak, now, validCapabilitiesSection, allSuccessful,
                 fixesMade, runsLeft, arg, ret, configsValid>>
  /\ IF ~RootExists(root)
     THEN /\ allValid' = FALSE
          /\ fault' = FALSE /\ UNCHANGED faultsLeft
          /\ ReturnValid(FALSE)
     ELSE \/ \* statSync throws
             /\ Throws
             /\ allValid' = FALSE
             /\ ReturnValid(FALSE)
          \/ /\ fault' = FALSE /\ UNCHANGED faultsLeft
             /\ IF ~IsDirectory(root)
                THEN /\ allValid' = FALSE
                     /\ ReturnValid(FALSE)
                ELSE /\ allValid' = TRUE
                     /\ idx' = 1
                     /\ op' = "validate"
                     /\ pc' = "val-loop"
                     /\ UNCHANGED <<result, hist>>

\* lines 284-339: one file of the loop
ValExamine ==
  /\ pc = "val-loop" /\ op = "validate"
  /\ UNCHANGED instVars
  /\ idx <= Len(ALLOWED_SYSTEM_PROMPT_FILES)
  /\ LET file == ALLOWED_SYSTEM_PROMPT_FILES[idx]
         filePath == validatePath(root.path, file, Cwd)
     IN  /\ UNCHANGED <<root, bak, now, op, validCapabilitiesSection, allSuccessful,
                        fixesMade, result, pre, bakPre, hist, runsLeft, arg, ret,
                        configsValid>>
         /\ IF filePath = NullPath
            THEN /\ allValid' = FALSE
                 /\ ContinueValid(PathResolve(root.path, file, Cwd), "rejected")
                 /\ Returns
                 /\ UNCHANGED <<fs, content, checked>>
            ELSE IF fs[filePath] = Absent
            THEN /\ ContinueValid(filePath, "missing")
                 /\ Returns
                 /\ UNCHANGED <<fs, content, checked, allValid>>
            ELSE \/ \* readFileSync throws: the catch of line 335
                    /\ Throws
                    /\ allValid' = FALSE
                    /\ ContinueValid(filePath, "read-failed")
                    /\ UNCHANGED <<fs, content, checked>>
                 \/ /\ Returns
                    /\ ValRead(filePath)
                    /\ content' = fs[filePath]
                    /\ IF HasDuplicates(fs[filePath])
                       THEN /\ allValid' = FALSE
                            /\ ContinueValid(filePath, "still-duplicates")
                            /\ UNCHANGED checked
                       ELSE /\ checked' =
                                 Append(checked,
                                        [file |-> filePath,
                                         sections |-> SectionsChecked(fs[filePath])])
                            /\ IF InvalidSections(fs[filePath]) > 0
                               THEN /\ allValid' = FALSE
                                    /\ ContinueValid(filePath, "invalid-sections")
                               ELSE /\ UNCHANGED allValid
                                    /\ ContinueValid(filePath, "valid")

\* lines 341-348: the loop is over
ValReturn ==
  /\ pc = "val-loop" /\ op = "validate"
  /\ UNCHANGED instVars
  /\ idx > Len(ALLOWED_SYSTEM_PROMPT_FILES)
  /\ UNCHANGED <<root, fs, bak, now, content, validCapabilitiesSection, allSuccessful,
                 fixesMade, pre, bakPre, outcome, fault, faultsLeft, runsLeft,
                 arg, ret, allValid, checked, configsValid>>
  /\ ReturnValid(allValid)

\* the result of the validator alone: a bug that forgets what the fixer said
ConfigResultOfValidation(fixResult, validationSuccess) == validationSuccess

\* installer.js, lines 440-465: allValid starts true and is set false when
\* fixResult is false and when validationSuccess is false
ConfigResult(fixResult, validationSuccess) == fixResult /\ validationSuccess

\* installer.js, line 465: validateAllToolConfigurations returns
ConfigReturn ==
  /\ pc = "idle"
  /\ UNCHANGED instVars
  /\ Len(hist) >= 2 /\ hist[Len(hist)].op = "validate"
  /\ pc' = "done"
  /\ configsValid' = ConfigResult(hist[Len(hist) - 1].result, hist[Len(hist)].result)
  /\ UNCHANGED <<root, fs, bak, now, op, idx, content, validCapabilitiesSection,
                 allSuccessful, fixesMade, result, pre, bakPre, outcome, hist,
                 fault, faultsLeft, runsLeft, arg, ret, allValid, checked>>

\* validateAllToolConfigurations calls the fixer once
InitConfig == Init /\ runsLeft = 1

NextConfig ==
  \/ FixStart
  \/ FixExamine
  \/ FixBackup
  \/ FixRewrite
  \/ FixVerify
  \/ FixReturn
  \/ ValStart
  \/ ValExamine
  \/ ValReturn
  \/ ConfigReturn

SpecConfig == InitConfig /\ [][NextConfig]_vars

\* the validator has returned
ValOver == pc \in {"idle", "done"} /\ hist # <<>> /\ hist[Len(hist)].op = "validate"

\* the validator is running or has returned
ValStarted == op = "validate" \/ ValOver

\* the checks the validator made of the sections of a file
ChecksOf(f) == {i \in 1..Len(checked) : checked[i].file = f}

\* what validateYamlSection can return
ValidationRecords == [valid : BOOLEAN, error : {Null, "YAMLException"}]

\* C24: no failure escapes a sanitizer operation.  Whichever file system call
\* fails, at whichever step, and whatever the YAML parser raises, the fixer
\* and the validator go on to return a boolean (false for a run in which a
\* call failed), the failure being recorded where it was caught, and
\* validateYamlSection returns a record of valid and error; no step leaves
\* an exception thrown out of the operation.
C24_NoFailureEscapes ==
  /\ pc \in {"idle", "fix-loop", "fix-backup", "fix-rewrite", "fix-verify",
             "val-loop", "done"}
  /\ result \in BOOLEAN
  /\ \A i \in 1..Len(hist) :
       hist[i].result \in BOOLEAN /\ (hist[i].fault => ~hist[i].result)
  /\ (fault /\ op = "fix") => ~allSuccessful
  /\ (fault /\ op = "validate") => ~allValid
  /\ \A i \in 1..Len(checked) : \A j \in 1..Len(checked[i].sections) :
       validateYamlSection(checked[i].sections[j]) \in ValidationRecords

\* C24's case: a call of the fixer failed, the parser raised an error in the
\* validator, and both have returned
C24_Witness ==
  /\ pc = "done"
  /\ hist[1].fault /\ ~hist[1].result
  /\ \E i \in 1..Len(checked) : \E j \in 1..Len(checked[i].sections) :
       ~validateYamlSection(checked[i].sections[j]).valid

\* C27: when the fixer has returned true, every allow-listed file that exists
\* holds at most one line matching capabilities:, and the validator called
\* next reports no file as still having duplicate capabilities sections.
C27_FixTrueLeavesNoDuplicates ==
  (hist # <<>> /\ hist[1].op = "fix" /\ hist[1].result) =>
    /\ \A f \in DOMAIN fs : fs[f] # Absent => CountCapabilitiesMatches(fs[f]) <= 1
    /\ ValStarted => \A f \in DOMAIN fs : outcome[f] # "still-duplicates"

\* C13: validateFilesWithYaml never mutates the file system: while it runs and
\* when it has returned, every file is there or not as it was at the call, with
\* the content it had at the call, and no backup has been made
C13_ValidateMutatesNothing ==
  ValStarted => /\ fs = pre
                /\ bak = bakPre

\* the validator has read a file that is there, found a section of it invalid
\* and returned
C13_Witness ==
  /\ ValOver
  /\ \E f \in FilesUnder(root) : fs[f] # Absent /\ outcome[f] = "invalid-sections"

\* C14: validateFilesWithYaml returns true only if every allow-listed file that
\* is there has at most one capabilities: line and every Section of it that
\* holds a colon validates; and a file with more than one capabilities: line
\* is reported invalid with no Section of it validated
C14_ValidateResult ==
  /\ (ValOver /\ result) =>
       \A f \in FilesUnder(root) :
         fs[f] # Absent =>
           /\ CountCapabilitiesMatches(fs[f]) <= 1
           /\ \A i \in 1..Len(Sections(fs[f])) :
                IncludesColon(Sections(fs[f])[i]) => IsValid(Sections(fs[f])[i])
  /\ ValStarted =>
       \A f \in FilesUnder(root) :
         (fs[f] # Absent /\ CountCapabilitiesMatches(fs[f]) > 1 /\ outcome[f] # "pending") =>
           /\ ~allValid
           /\ ChecksOf(f) = {}
           /\ ValOver => ~result

\* the validator has returned true after validating a Section of a file
C14_Witness ==
  /\ ValOver /\ result
  /\ \E f \in FilesUnder(root) :
       /\ fs[f] # Absent
       /\ \E i \in ChecksOf(f) : Len(checked[i].sections) >= 1

\* texts on which the fixer succeeds, finds no anchor, finds no valid section,
\* and has nothing to do while the validator finds an invalid section
LiveTexts ==
  {JoinLines(<<<<"mode:">>, <<"capabilities:">>, <<"capabilities:">>>>),
   JoinLines(<<<<"capabilities:">>, <<"capabilities:">>>>),
   JoinLines(<<<<"mode:">>, <<"capabilities:", "[">>, <<"capabilities:", "[">>>>),
   JoinLines(<<<<"mode:">>, <<"capabilities:", "[">>>>)}

InitLive ==
  /\ InitConfig
  /\ fs[TargetFile(root)] \in LiveTexts \cup SampleTexts \cup {Absent}

\* the two calls of validateAllToolConfigurations, each step of which is taken
\* when it can be: the process runs on
SpecConfigFair == InitLive /\ [][NextConfig]_vars /\ WF_vars(NextConfig)

\* the i-th file of the allow-list, under the project root
AllowedFile(i) == PathResolve(root.path, ALLOWED_SYSTEM_PROMPT_FILES[i], Cwd)

\* the run has examined the file
Examined(f) == outcome[f] # "pending"

\* the outcomes of the validator that make its value false
FailedValid == {"rejected", "read-failed", "still-duplicates", "invalid-sections"}

\* C12: in a run of the fixer or of the validator on a valid project root the
\* files are examined in the order of the allow-list, and once the loop has
\* started every file of the allow-list is examined in the end, whatever
\* failed on a file before it
C12_FailureIsolation ==
  /\ [](\A i \in 1..Len(ALLOWED_SYSTEM_PROMPT_FILES) :
         Examined(AllowedFile(i)) =>
           /\ i <= idx \/ op = "none"
           /\ \A j \in 1..i : Examined(AllowedFile(j)))
  /\ (op = "fix" /\ idx = 1) ~>
       (op = "fix" /\ \A i \in 1..Len(ALLOWED_SYSTEM_PROMPT_FILES) :
                        Examined(AllowedFile(i)))
  /\ (op = "validate" /\ idx = 1) ~>
       (op = "validate" /\ \A i \in 1..Len(ALLOWED_SYSTEM_PROMPT_FILES) :
                             Examined(AllowedFile(i)))

\* the fixer has failed on a file and gone on to examine the last file of the
\* allow-list
C12_Witness ==
  /\ op = "fix"
  /\ \E i \in 1..(Len(ALLOWED_SYSTEM_PROMPT_FILES) - 1) :
       /\ outcome[AllowedFile(i)] \in Failed
       /\ fs[AllowedFile(i)] # Absent
  /\ Examined(AllowedFile(Len(ALLOWED_SYSTEM_PROMPT_FILES)))

\* C20: in validateAllToolConfigurations the fixer is called once and has
\* returned when the validator is called, the validator is called whatever the
\* fixer returned, and the result is the conjunction of what the two returned
C20_FixThenValidate ==
  /\ Len(hist) <= 2
  /\ Len(hist) >= 1 => hist[1].op = "fix"
  /\ Len(hist) = 2 => hist[2].op = "validate"
  /\ op = "fix" => hist = <<>>
  /\ op = "validate" => Len(hist) = 1
  /\ pc = "done" => /\ Len(hist) = 2
                    /\ configsValid = (hist[1].result /\ hist[2].result)

\* the fixer returned false, the validator was called and returned true, and
\* validateAllToolConfigurations has returned
C20_Witness ==
  /\ pc = "done"
  /\ Len(hist) = 2
  /\ ~hist[1].result
  /\ hist[2].result

----------------------------------------------------------------------------
(* The pure specification of the section splitter: every text of at most   *)
(* MaxLen tokens is split once.                                            *)

Idle ==
  /\ root = [path |-> [abs |-> TRUE, segs |-> <<>>, trail |-> FALSE], kind |-> "dir"]
  /\ fs = <<>> /\ bak = {} /\ now = 0 /\ op = "none" /\ idx = 0
  /\ content = <<>> /\ validCapabilitiesSection = <<>>
  /\ allSuccessful = TRUE /\ fixesMade = FALSE
  /\ allValid = TRUE /\ checked = <<>> /\ configsValid = TRUE
  /\ InstIdle
  /\ result = FALSE /\ pre = <<>> /\ bakPre = {} /\ outcome = <<>>
  /\ hist = <<>> /\ fault = FALSE /\ faultsLeft = 0 /\ runsLeft = 0

InitSplit ==
  /\ Idle
  /\ pc = "split"
  /\ arg \in SeqsUpTo(Tokens, MaxLen) \cup FileTexts
  /\ ret = Null

CallSplit ==
  /\ pc = "split"
  /\ UNCHANGED <<valVars, instVars>>
  /\ ret' = splitIntoYamlSections(arg)
  /\ pc' = "split-done"
  /\ UNCHANGED <<root, fs, bak, now, op, idx, content, validCapabilitiesSection,
                 allSuccessful, fixesMade, result, pre, bakPre, outcome, hist,
                 fault, faultsLeft, runsLeft, arg>>

NextSplit == CallSplit

SpecSplit == InitSplit /\ [][NextSplit]_vars

\* the text without its leading blank lines
RECURSIVE StripLeadingBlankLines(_)
StripLeadingBlankLines(s) ==
  IF s = <<>> THEN <<>>
  ELSE LET first == Head(SplitLines(s)) IN
       IF ~IsBlank(first) THEN s
       ELSE IF Len(first) = Len(s) THEN <<>>
       ELSE StripLeadingBlankLines(SubSeq(s, Len(first) + 2, Len(s)))

\* C3: the Sections of a text, concatenated in order, are the text without its
\* leading blank lines: nothing is added, dropped or reordered, at the end of
\* the text either.
C3_LosslessPartition ==
  pc = "split-done" => JoinSections(ret) = StripLeadingBlankLines(arg)

\* a top-level line: not blank, no leading whitespace
IsTopLevel(line) == ~IsBlank(line) /\ ~HasLeadingWs(line)

\* the reference splitter: a new Section at every top-level line, every other
\* line appended to the current Section, the blank lines before any Section
\* skipped; it keeps no flag
RECURSIVE ReferenceLoop(_, _, _, _)
ReferenceLoop(lines, i, sections, currentSection) ==
  IF i > Len(lines)
  THEN IF currentSection # <<>> THEN Append(sections, currentSection) ELSE sections
  ELSE IF IsTopLevel(lines[i])
  THEN ReferenceLoop(lines, i + 1,
                     IF currentSection # <<>> THEN Append(sections, currentSection)
                                              ELSE sections,
                     lines[i] \o <<NL>>)
  ELSE IF currentSection = <<>> /\ IsBlank(lines[i])
  THEN ReferenceLoop(lines, i + 1, sections, currentSection)
  ELSE ReferenceLoop(lines, i + 1, sections, currentSection \o lines[i] \o <<NL>>)

ReferenceSplit(text) ==
  IF text = <<>> THEN <<>> ELSE ReferenceLoop(SplitLines(text), 1, <<>>, <<>>)

\* C22: splitIntoYamlSections gives, for every text, the Sections of the
\* reference splitter that starts a Section at every top-level line and
\* appends every other line to the current one: the in-YAML-block flag never
\* moves a Section boundary.
C22_FlagMovesNoBoundary ==
  pc = "split-done" => ret = ReferenceSplit(arg)

\* C22's case: a top-level line met inside a YAML block, and one met outside
C22_Witness ==
  /\ pc = "split-done"
  /\ Len(ret) >= 2
  /\ IncludesColon(FirstLine(ret[1]))
  /\ IsTopLevel(FirstLine(ret[1])) /\ IsTopLevel(FirstLine(ret[2]))

\* C23: every Section splitIntoYamlSections returns, for any text, begins
\* with a top-level line (not blank, no leading whitespace) and holds no other
\* top-level line.
C23_SectionsStartTopLevel ==
  pc = "split-done" =>
    \A i \in 1..Len(ret) :
      LET lines == SplitLines(ret[i]) IN
      /\ IsTopLevel(lines[1])
      /\ \A j \in 2..Len(lines) : ~IsTopLevel(lines[j])

----------------------------------------------------------------------------
(* validateYamlSection on fragments *)

\* the lines fragments are made of: entries with and without a value, nested
\* and not, one that opens a flow sequence, and the blank line
FragLines ==
  {<<"mode:", SP, "code">>, <<SP, SP, "description:", SP, "test">>, <<"k:">>,
   <<SP, "capabilities:">>, <<"Capabilities:", SP, "[">>, <<>>}

\* the fragments: at most MaxFragLines lines, no line twice (a mapping with a
\* key twice is another error of js-yaml)
PlainFragments ==
  {JoinLines(ls) : ls \in {s \in SeqsUpTo(FragLines, MaxFragLines) :
                              \A i, j \in 1..Len(s) : s[i] = s[j] => i = j}}

\* and the same after the marker that opens a document
Fragments ==
  PlainFragments \cup {<<DocumentMarker, NL>> \o f : f \in PlainFragments}

InitYaml ==
  /\ Idle
  /\ pc = "yaml"
  /\ arg \in Fragments
  /\ ret = Null

CallValidateYamlSection ==
  /\ pc = "yaml"
  /\ UNCHANGED <<valVars, instVars>>
  /\ ret' = validateYamlSection(arg)
  /\ content' = ParserInput(arg)
  /\ pc' = "yaml-done"
  /\ UNCHANGED <<root, fs, bak, now, op, idx, validCapabilitiesSection,
                 allSuccessful, fixesMade, result, pre, bakPre, outcome, hist,
                 fault, faultsLeft, runsLeft, arg>>

NextYaml == CallValidateYamlSection

SpecYaml == InitYaml /\ [][NextYaml]_vars

\* the fragment "mode: code\n  description: test\n"
ModeCodeFragment ==
  <<"mode:", SP, "code", NL, SP, SP, "description:", SP, "test", NL>>

\* the Section is parsed wrapped under a synthetic top-level key: it holds a
\* colon and its trimmed text starts with a bare key and with no document marker
TakesWrapPath(section) ==
  /\ section # <<>>
  /\ IncludesColon(section)
  /\ ~StartsWithDocumentMarker(Trim(section))
  /\ MatchesBareKey(Trim(section))

C17_FragmentValidates ==
  (pc = "yaml-done" /\ arg = ModeCodeFragment) =>
    /\ TakesWrapPath(arg)
    /\ ret.valid

----------------------------------------------------------------------------
(* The pure specification of validatePath: every base path of at most      *)
(* MaxBaseSegs segments against the allow-listed paths, the two paths the  *)
(* specification names and every candidate of at most MaxCandSegs segments *)

BaseSegNames == {"proj", "proj2", "..", "."}
CandSegNames == {"..", "proj2", ".roo", "system-prompt-code"}

\* "../../etc/passwd" and "notAllowed/file"
EtcPasswd == Path(FALSE, <<"..", "..", "etc", "passwd">>, FALSE)
NotAllowedFile == Path(FALSE, <<"notAllowed", "file">>, FALSE)

PathsOver(names, n) ==
  {Path(a, s, t) : a \in BOOLEAN, s \in SeqsUpTo(names, n), t \in BOOLEAN}
    \ {p \in {Path(a, <<>>, TRUE) : a \in BOOLEAN} : TRUE}

BasePaths == PathsOver(BaseSegNames, MaxBaseSegs)

CandPaths ==
  PathsOver(CandSegNames, MaxCandSegs)
    \cup {ALLOWED_SYSTEM_PROMPT_FILES[i] : i \in 1..Len(ALLOWED_SYSTEM_PROMPT_FILES)}
    \cup {EtcPasswd, NotAllowedFile}

\* process.cwd()
WorkingDirs == {Path(TRUE, <<>>, FALSE), Path(TRUE, <<"proj">>, FALSE)}

InitPath ==
  /\ Idle
  /\ pc = "path"
  /\ arg \in [base : BasePaths, cand : CandPaths, cwd : WorkingDirs]
  /\ ret = NullPath

CallValidatePath ==
  /\ pc = "path"
  /\ UNCHANGED <<valVars, instVars>>
  /\ ret' = validatePath(arg.base, arg.cand, arg.cwd)
  /\ pc' = "path-done"
  /\ UNCHANGED <<root, fs, bak, now, op, idx, content, validCapabilitiesSection,
                 allSuccessful, fixesMade, result, pre, bakPre, outcome, hist,
                 fault, faultsLeft, runsLeft, arg>>

NextPath == CallValidatePath

SpecPath == InitPath /\ [][NextPath]_vars

\* the directory a base path names, in the working directory
BaseDirectory(base, cwd) == PathResolve(base, Path(FALSE, <<>>, FALSE), cwd)

\* path p lies in directory d (or is d): d's segments are p's first segments
IsInside(p, d) ==
  /\ Len(d.segs) <= Len(p.segs)
  /\ SubSeq(p.segs, 1, Len(d.segs)) = d.segs

\* C9: validatePath returns a path only for a candidate that is literally in the
\* allow-list, and the path it returns lies inside the base directory; the
\* candidates ../../etc/passwd and notAllowed/file get the null sentinel for
\* every base.
C9_AllowListEnforced ==
  pc = "path-done" =>
    /\ ret # NullPath => /\ AllowedIncludes(arg.cand)
                     /\ IsInside(ret, BaseDirectory(arg.base, arg.cwd))
    /\ arg.cand \in {EtcPasswd, NotAllowedFile} => ret = NullPath

\* C9's case: a candidate was let through
C9_Witness ==
  /\ pc = "path-done"
  /\ ret # NullPath
  /\ AllowedIncludes(arg.cand)

\* C10: validatePath rejects exactly when the base or the candidate is empty,
\* the resolved candidate lies outside the base directory, or the candidate is
\* not in the allow-list; so it succeeds, with the resolved absolute path, for
\* every non-empty base and every allow-listed candidate.
C10_RejectsExactly ==
  pc = "path-done" =>
    LET resolved == PathResolve(arg.base, arg.cand, arg.cwd) IN
    /\ ret = NullPath <=>
         \/ arg.base = EmptyPath
         \/ arg.cand = EmptyPath
         \/ ~IsInside(resolved, BaseDirectory(arg.base, arg.cwd))
         \/ ~AllowedIncludes(arg.cand)
    /\ ret # NullPath => ret = resolved

----------------------------------------------------------------------------
(* installer.js: the command line, the downloads and the copy step of install.

   A path is the sequence of its segments, relative to the project root unless
   the entry says isAbsolutePath.  A file holds the path of the source it was
   copied from, UserContent when the user wrote it, or NoFile.  An unpacked
   archive holds every file the copy list names under its directory. *)

NoFile == <<"ENOENT">>
UserContent == <<"user">>
NoDest == <<>>

\* path.dirname
Dirname(p) == SubSeq(p, 1, Len(p) - 1)

RooConfig == <<"roo", "RooFlow-main", "config">>
RooDefaultMode == RooConfig \o <<"default-mode">>
ClineMain == <<"cline", "roo-code-memory-bank-main">>
WindsurfMain == <<"windsurf", "cascade-memory-bank-main">>
HomeMemories == <<"~", ".codeium", "windsurf", "memories">>

\* an entry of filesToCopy with the deprecated destFolder property
WithDestFolder(src, destFolder) ==
  [src |-> src, dest |-> NoDest, destFolder |-> destFolder, isAbsolutePath |-> FALSE]

\* an entry with the dest property
WithDest(src, dest, isAbsolutePath) ==
  [src |-> src, dest |-> dest, destFolder |-> NoDest, isAbsolutePath |-> isAbsolutePath]

AI_IDE_EXTENSIONS ==
  [tool \in {".roo", ".cline", ".windsurf", ".cursor", ".gitlab-copilot"} |->
     CASE tool = ".roo" ->
            [url |-> TRUE,
             templateDir |-> RooConfig \o <<".roo">>,
             filesToCopy |->
               <<WithDestFolder(RooConfig \o <<".roo", "system-prompt-architect">>,
                                <<".roo", "system-prompt-architect.yaml">>),
                 WithDestFolder(RooConfig \o <<".roo", "system-prompt-ask">>,
                                <<".roo", "system-prompt-ask.yaml">>),
                 WithDestFolder(RooConfig \o <<".roo", "system-prompt-code">>,
                                <<".roo", "system-prompt-code.yaml">>),
                 WithDestFolder(RooConfig \o <<".roo", "system-prompt-debug">>,
                                <<".roo", "system-prompt-debug.yaml">>),
                 WithDestFolder(RooConfig \o <<".roo", "system-prompt-test">>,
                                <<".roo", "system-prompt-test.yaml">>),
                 WithDestFolder(<<"roo", "RooFlow-main", "default-system-prompt.md">>,
                                <<".roo", "system-prompt-default.md">>),
                 WithDestFolder(RooDefaultMode \o <<"cline_custom_modes.json">>,
                                <<".roo", "cline_custom_modes.json">>),
                 WithDestFolder(RooDefaultMode \o <<"custom-instructions.yaml">>,
                                <<".roo", "custom-instructions.yaml">>),
                 WithDestFolder(RooDefaultMode \o <<"README.md">>,
                                <<".roo", "README.md">>),
                 WithDestFolder(RooDefaultMode \o <<"role-definition.txt">>,
                                <<".roo", "role-definition.txt">>)>>,
             additionalFilesToCopy |->
               <<WithDest(RooConfig \o <<".rooignore">>, <<".rooignore">>, FALSE),
                 WithDest(RooConfig \o <<".roomodes">>, <<".roomodes">>, FALSE),
                 WithDest(RooConfig \o <<"insert-variables.cmd">>,
                          <<"insert-variables.cmd">>, FALSE),
                 WithDest(RooConfig \o <<"insert-variables.sh">>,
                          <<"insert-variables.sh">>, FALSE)>>]
       [] tool = ".cline" ->
            [url |-> TRUE,
             templateDir |-> ClineMain,
             filesToCopy |->
               <<WithDestFolder(ClineMain \o <<".clinerules-architect">>,
                                <<".clinerules-architect">>),
                 WithDestFolder(ClineMain \o <<".clinerules-code">>,
                                <<".clinerules-code">>),
                 WithDestFolder(ClineMain \o <<".clinerules-ask">>,
                                <<".clinerules-ask">>),
                 WithDestFolder(<<"clione", "roo-code-memory-bank-main", ".clinerules-debug">>,
                                <<".clinerules-debug">>),
                 WithDestFolder(ClineMain \o <<".clinerules-test">>,
                                <<".clinerules-test">>),
                 WithDestFolder(ClineMain \o <<".roomodes">>, <<".roomodes">>)>>,
             additionalFilesToCopy |-> <<>>]
       [] tool = ".windsurf" ->
            [url |-> TRUE,
             templateDir |-> WindsurfMain,
             filesToCopy |->
               <<WithDestFolder(WindsurfMain \o <<".windsurfrules">>, <<".windsurfrules">>),
                 WithDest(WindsurfMain \o <<"global_rules.md">>,
                          HomeMemories \o <<"global_rules.md">>, TRUE)>>,
             additionalFilesToCopy |-> <<>>]
       [] OTHER ->
            [url |-> FALSE, templateDir |-> <<>>,
             filesToCopy |-> <<>>, additionalFilesToCopy |-> <<>>]]

\* Object.keys(AI_IDE_EXTENSIONS), in insertion order
AI_TOOL_DIRS == <<".roo", ".cline", ".windsurf", ".cursor", ".gitlab-copilot">>

\* extension.substring(1), the directory an archive is unpacked into
ExtractPath(extension) ==
  CASE extension = ".roo" -> "roo"
    [] extension = ".cline" -> "cline"
    [] extension = ".windsurf" -> "windsurf"
    [] extension = ".cursor" -> "cursor"
    [] OTHER -> "gitlab-copilot"

\* zipPath: `${extension.substring(1)}.zip` under the project root
ZipPath(extension) ==
  CASE extension = ".roo" -> <<"roo.zip">>
    [] extension = ".cline" -> <<"cline.zip">>
    [] extension = ".windsurf" -> <<"windsurf.zip">>
    [] extension = ".cursor" -> <<"cursor.zip">>
    [] OTHER -> <<"gitlab-copilot.zip">>

\* what an archive file holds, whole or cut short
ZipContent == <<"zip">>

\* fs.existsSync of a path below an unpack directory, given the unpacked tools
ExistsUnpacked(p, tools) ==
  p # <<>> /\ \E t \in tools : p[1] = ExtractPath(t)

\* what getFilesToCopy pushes for an entry of filesToCopy
Pushed(e) ==
  WithDest(e.src, IF e.dest # NoDest THEN e.dest ELSE e.destFolder, e.isAbsolutePath)

\* the filesToCopy.forEach of getFilesToCopy
PushedFilesToCopy(filesToCopy, tools) ==
  LET kept == SelectSeq(filesToCopy,
                LAMBDA e : /\ ExistsUnpacked(e.src, tools)
                           /\ (e.dest # NoDest \/ e.destFolder # NoDest))
  IN  [i \in 1..Len(kept) |-> Pushed(kept[i])]

\* the body of getFilesToCopy's loop for one tool
FilesOfTool(dir, tools) ==
  LET ext == AI_IDE_EXTENSIONS[dir] IN
  IF ~ext.url THEN <<>>
  ELSE ext.additionalFilesToCopy \o
       (IF ext.templateDir = <<>> \/ ~ExistsUnpacked(ext.templateDir, tools)
          THEN <<>>
          ELSE PushedFilesToCopy(ext.filesToCopy, tools))

RECURSIVE FilesFrom(_, _)
FilesFrom(i, tools) ==
  IF i > Len(AI_TOOL_DIRS) THEN <<>>
  ELSE FilesOfTool(AI_TOOL_DIRS[i], tools) \o FilesFrom(i + 1, tools)

getFilesToCopy(tools) == FilesFrom(1, tools)

verifyTemplateDirectories(tools) ==
  \E i \in 1..Len(AI_TOOL_DIRS) :
    LET ideDir == AI_IDE_EXTENSIONS[AI_TOOL_DIRS[i]].templateDir IN
    ideDir # <<>> /\ ExistsUnpacked(ideDir, tools)

parseCommandLineArgs(args) ==
  [forceOverwrite |-> \E i \in 1..Len(args) : args[i] \in {"--force", "-f"},
   help |-> \E i \in 1..Len(args) : args[i] \in {"--help", "-h"}]

\* the command lines of the model
ArgvSamples == {<<>>, <<"--force">>, <<"-f", "--verbose">>, <<"--help">>}

\* every path the installer can write, and the paths the sanitizer reads
AllEntries ==
  getFilesToCopy({AI_TOOL_DIRS[i] : i \in 1..Len(AI_TOOL_DIRS)})

DiskPaths ==
  {AllEntries[i].dest : i \in 1..Len(AllEntries)}
    \cup {ALLOWED_SYSTEM_PROMPT_FILES[i].segs : i \in 1..Len(ALLOWED_SYSTEM_PROMPT_FILES)}
    \cup {ZipPath(AI_TOOL_DIRS[i]) : i \in 1..Len(AI_TOOL_DIRS)}

\* the archive an earlier run may have left in the project
StaleZips == {ZipPath(".roo")}

\* the files a user may have in the project before the installer runs
UserPaths ==
  {<<".roomodes">>, <<".roo", "system-prompt-code.yaml">>, <<".roo", "system-prompt-code">>}

\* the sanitizer's variables, which the installer's copy step leaves alone
fixVars == <<root, fs, bak, now, op, content, validCapabilitiesSection, allSuccessful,
             fixesMade, result, pre, bakPre, outcome, hist, runsLeft>>

InitInstall ==
  /\ root = [path |-> [abs |-> TRUE, segs |-> <<>>, trail |-> FALSE], kind |-> "dir"]
  /\ fs = <<>> /\ bak = {} /\ now = 0 /\ op = "none" /\ idx = 0
  /\ content = <<>> /\ validCapabilitiesSection = <<>>
  /\ allSuccessful = TRUE /\ fixesMade = FALSE
  /\ allValid = TRUE /\ checked = <<>> /\ configsValid = TRUE
  /\ result = FALSE /\ pre = <<>> /\ bakPre = {} /\ outcome = <<>>
  /\ hist = <<>> /\ fault = FALSE /\ faultsLeft = MaxFaults /\ runsLeft = 0
  /\ pc = "inst-main"
  /\ arg \in ArgvSamples
  /\ ret = Null
  /\ \E user \in SUBSET UserPaths, stale \in SUBSET StaleZips :
       /\ disk = [p \in DiskPaths |->
                   IF p \in user THEN UserContent
                   ELSE IF p \in stale THEN ZipContent ELSE NoFile]
       /\ dirs = {<<>>} \cup {Dirname(p) : p \in user}
  /\ extracted = {}
  /\ downloaded = {}
  /\ FILES = <<>>
  /\ options = [forceOverwrite |-> FALSE, help |-> FALSE]
  /\ copySuccess = TRUE
  /\ copyLog = <<>>

\* the top level of installer.js: parseCommandLineArgs, showHelp
InstallerMain ==
  /\ pc = "inst-main"
  /\ options' = parseCommandLineArgs(arg)
  /\ IF options'.help
       THEN pc' = "inst-done" /\ ret' = "help" /\ idx' = idx
       ELSE pc' = "inst-download" /\ ret' = ret /\ idx' = 1
  /\ UNCHANGED <<fixVars, valVars, fault, faultsLeft, arg, disk, dirs, extracted,
                 downloaded, FILES, copySuccess, copyLog>>

\* what the HTTP request of a download can come to: 200; 302 and then 200;
\* 302 and then another status; another status; a connection error before
\* the redirect, or after it; an error while the body is written to the file
HttpOutcomes ==
  {"200", "302-200", "302-other", "other", "error", "302-error", "body-error"}

\* downloadAndUnpackAIExtension returns and install's loop goes on
NextExtension ==
  /\ idx' = idx + 1
  /\ UNCHANGED <<pc, ret>>

\* an exception thrown in an event listener, outside the promise: the
\* uncaughtException handler of lines 812-821 ends the process
UncaughtException ==
  /\ pc' = "inst-done"
  /\ ret' = "uncaught-exception"
  /\ UNCHANGED idx

\* the promise awaited is never settled: install goes no further
NeverSettles ==
  /\ pc' = "inst-stalled"
  /\ UNCHANGED <<idx, ret>>

\* downloadAndUnpackAIExtension for the next tool.  A tool without url is
\* skipped.  A status that is not 200 rejects the promise, and the outer catch
\* logs it.  On 200 the body is piped to the archive file and the archive is
\* unpacked; when unpacking throws, the inner catch logs it and the archive
\* stays.  The "error" listeners call fs.unlinkSync(zipPath) before they
\* reject: it throws when there is no archive file.  No listener is set for
\* an error of the response or of the write stream: it is thrown as an
\* unhandled "error" event, or nothing is emitted and "finish" never comes.
DownloadAndUnpack ==
  /\ pc = "inst-download" /\ idx <= Len(AI_TOOL_DIRS)
  /\ LET extension == AI_TOOL_DIRS[idx]
         zipPath == ZipPath(extension)
     IN
     IF ~AI_IDE_EXTENSIONS[extension].url
       THEN NextExtension /\ UNCHANGED <<disk, extracted, downloaded>>
       ELSE \E http \in HttpOutcomes :
         CASE http \in {"200", "302-200"} ->
                /\ NextExtension
                /\ \/ \* extractAllTo and unlinkSync of the archive
                      /\ disk' = [disk EXCEPT ![zipPath] = NoFile]
                      /\ extracted' = extracted \cup {extension}
                      /\ downloaded' = downloaded \cup {extension}
                   \/ \* new AdmZip or extractAllTo throws
                      /\ disk' = [disk EXCEPT ![zipPath] = ZipContent]
                      /\ UNCHANGED <<extracted, downloaded>>
           [] http \in {"302-other", "other"} ->
                /\ NextExtension
                /\ UNCHANGED <<disk, extracted, downloaded>>
           [] http \in {"error", "302-error"} ->
                /\ UNCHANGED <<extracted, downloaded>>
                /\ IF disk[zipPath] # NoFile
                     THEN disk' = [disk EXCEPT ![zipPath] = NoFile] /\ NextExtension
                     ELSE UNCHANGED disk /\ UncaughtException
           [] OTHER ->
                /\ disk' = [disk EXCEPT ![zipPath] = ZipContent]
                /\ UNCHANGED <<extracted, downloaded>>
                /\ (UncaughtException \/ NeverSettles)
  /\ UNCHANGED <<fixVars, valVars, fault, faultsLeft, arg, dirs,
                 FILES, options, copySuccess, copyLog>>

\* verifyTemplateDirectories and getFilesToCopy
VerifyAndList ==
  /\ pc = "inst-download" /\ idx > Len(AI_TOOL_DIRS)
  /\ IF ~verifyTemplateDirectories(extracted)
       THEN /\ pc' = "inst-done" /\ ret' = "no-templates"
            /\ UNCHANGED <<FILES, idx>>
       ELSE /\ FILES' = getFilesToCopy(extracted)
            /\ idx' = 1
            /\ pc' = "inst-copy" /\ ret' = ret
  /\ copySuccess' = TRUE
  /\ UNCHANGED <<fixVars, valVars, fault, faultsLeft, arg, disk, dirs, extracted,
                 downloaded, options, copyLog>>

\* skip an existing destination whatever the options say: a bug that makes
\* --force a no-op
SkipsExistingAlways(exists, forceOverwrite) == exists

\* copyFile's test for preserving a destination
SkipsExisting(exists, forceOverwrite) == exists /\ ~forceOverwrite

\* what copyFile did with an entry, for the history
Did(what, success) ==
  /\ copyLog' = Append(copyLog, [dest |-> FILES[idx].dest, did |-> what])
  /\ copySuccess' = (copySuccess /\ success)
  /\ idx' = idx + 1
  /\ UNCHANGED <<pc, ret>>

\* one turn of install's copy loop: copyFile(file.src, file.dest,
\* file.isAbsolutePath, options.forceOverwrite)
CopyFile ==
  /\ pc = "inst-copy" /\ idx <= Len(FILES)
  /\ LET file == FILES[idx]
         destDir == Dirname(file.dest)
     IN
     IF ~ExistsUnpacked(file.src, extracted)
       THEN /\ Did("no-source", FALSE)
            /\ Returns /\ UNCHANGED <<disk, dirs>>
     ELSE IF SkipsExisting(disk[file.dest] # NoFile, options.forceOverwrite)
       THEN /\ Did("skipped", TRUE)
            /\ Returns /\ UNCHANGED <<disk, dirs>>
     ELSE
       \/ \* mkdirSync throws: resolve(false)
          /\ destDir \notin dirs
          /\ Throws
          /\ Did("mkdir-failed", FALSE)
          /\ UNCHANGED <<disk, dirs>>
       \/ \* copyFileSync throws: the promise is rejected, install's catch
          \* ends the process
          /\ Throws
          /\ dirs' = dirs \cup {destDir}
          /\ copyLog' = Append(copyLog, [dest |-> file.dest, did |-> "threw"])
          /\ pc' = "inst-done" /\ ret' = "exit-1"
          /\ UNCHANGED <<disk, copySuccess, idx>>
       \/ /\ Returns
          /\ dirs' = dirs \cup {destDir}
          /\ disk' = [disk EXCEPT ![file.dest] = file.src]
          /\ Did("copied", TRUE)
  /\ UNCHANGED <<fixVars, valVars, arg, extracted, downloaded, FILES, options>>

\* cleanupInsertVariablesScripts
WithoutScripts(d) ==
  [p \in DOMAIN d |->
     IF p \in {<<"insert-variables.cmd">>, <<"insert-variables.sh">>} THEN NoFile ELSE d[p]]

\* cleanupDownloadedExtensions: the archive files (the unpack directories are
\* the variable extracted)
WithoutArchives(d) ==
  [p \in DOMAIN d |->
     IF p \in {ZipPath(AI_TOOL_DIRS[i]) : i \in 1..Len(AI_TOOL_DIRS)} THEN NoFile ELSE d[p]]

\* the rest of install on a Unix-like platform: chmodSync of
\* insert-variables.sh, the script, the validation, and the two cleanups when
\* the script succeeded.  The script and the sanitizer rewrite text inside
\* files; they create and delete none of the files of disk.
FinishInstall ==
  /\ pc = "inst-copy" /\ idx > Len(FILES)
  /\ pc' = "inst-done"
  /\ \/ \* chmodSync throws for want of the file
        /\ disk[<<"insert-variables.sh">>] = NoFile
        /\ ret' = "exit-1"
        /\ UNCHANGED <<disk, extracted>>
     \/ /\ disk[<<"insert-variables.sh">>] # NoFile
        /\ \E scriptSuccess \in BOOLEAN, validationSuccess \in BOOLEAN :
             IF scriptSuccess
               THEN /\ disk' = WithoutArchives(WithoutScripts(disk))
                    /\ extracted' = {}
                    /\ ret' = IF validationSuccess THEN "complete" ELSE "warnings"
               ELSE /\ ret' = "script-failed"
                    /\ UNCHANGED <<disk, extracted>>
  /\ UNCHANGED <<fixVars, valVars, fault, faultsLeft, arg, idx, dirs, downloaded,
                 FILES, options, copySuccess, copyLog>>

NextInstall ==
  \/ InstallerMain
  \/ DownloadAndUnpack
  \/ VerifyAndList
  \/ CopyFile
  \/ FinishInstall

SpecInstall == InitInstall /\ [][NextInstall]_vars

\* install is one chain of awaits: a step that can be taken is taken
SpecInstallFair == InitInstall /\ [][NextInstall]_vars /\ WF_vars(NextInstall)

----------------------------------------------------------------------------
(* claims about the installer *)

\* the tools that have an archive to download
UrlTools == {AI_TOOL_DIRS[i] : i \in 1..Len(AI_TOOL_DIRS)} \ {".cursor", ".gitlab-copilot"}

\* the files the installation is expected to leave in the project
ExpectedFiles ==
  {ALLOWED_SYSTEM_PROMPT_FILES[i].segs : i \in 1..Len(ALLOWED_SYSTEM_PROMPT_FILES)}
    \cup {<<".roomodes">>, <<".rooignore">>}

\* every download succeeded, the template directories were found and the
\* insert-variables script succeeded
InstallSucceeded ==
  /\ pc = "inst-done"
  /\ ret \in {"complete", "warnings"}
  /\ downloaded = UrlTools

\* C18: after an installation in which the downloads, the template
\* directories and the insert-variables script all succeed, each file of the
\* sanitizer's allow-list (.roo/system-prompt-architect, -ask, -code, -debug,
\* -test), .roomodes and .rooignore exists under the project root.
C18_ExpectedFilesExist ==
  InstallSucceeded => \A p \in ExpectedFiles : disk[p] # NoFile

\* a step of the copy loop is about to be taken
InCopyLoop == pc = "inst-copy" /\ idx <= Len(FILES)

\* what copyFile did in the step just taken
LastDid == copyLog'[Len(copyLog')].did

Resolved(file) == [absolute |-> file.isAbsolutePath, path |-> file.dest]

\* C29: no two entries of the copy list resolve to the same destination
\* path, so copyFile is called once for each destination and what the
\* destination holds in the end comes from a single source.
C29_DestinationsDistinct ==
  /\ \A i, j \in 1..Len(FILES) : Resolved(FILES[i]) = Resolved(FILES[j]) => i = j
  /\ \A i, j \in 1..Len(copyLog) : copyLog[i].dest = copyLog[j].dest => i = j

\* C30: the download phase of install always finishes and never ends the
\* process: for every extension and every outcome of its HTTP request, the
\* promise awaited in downloadAndUnpackAIExtension is settled, the function
\* returns, and the loop goes on to the next extension.
C30_DownloadPhaseFinishes ==
  \A k \in 1..Len(AI_TOOL_DIRS) :
    (pc = "inst-download" /\ idx = k) ~> (pc = "inst-download" /\ idx = k + 1)

====
